---- MODULE Spec2Model ----
(***************************************************************************)
(* Clause generation of chalk-solve (src/chalk-solve/src/clauses.rs):      *)
(*   push_auto_trait_impls, program_clauses_for_goal,                      *)
(*   program_clauses_that_could_match, match_ty, match_type_kind and       *)
(*   program_clauses_for_env.                                              *)
(* The declaration store (RustIrDatabase), the per-entity clause routines  *)
(* (to_program_clauses), the clause visitor and could_match live outside   *)
(* clauses.rs; they are modelled from the design description.              *)
(***************************************************************************)
EXTENDS Integers, Sequences, FiniteSets, TLC

\* ------------------------------------------------------------------ bounds
\* longest environment (number of hypotheses)
MaxEnvLen == 1
\* how many times a declaration's routine may emit each of its clauses
MaxDecl == 2
\* deepest nesting of Ty::ForAll around a type
MaxForAll == 1
\* most fields of a struct
MaxFields == 2
\* most generic parameters of a struct or of a trait datum
MaxBinders == 2

\* the binder count the assertion of push_auto_trait_impls demands
AutoTraitBinders == 1

\* ------------------------------------------------------- identifiers, types
TraitIds == {"T1", "T2"}
StructIds == {"S1"}
AssocIds == {"A1"}
NoId == "-"

\* A type: its outermost non-quantified constructor (tag, name kind, id) under
\* `forall` nested Ty::ForAll quantifiers.
Ty(tag, nk, id, q) == [tag |-> tag, nk |-> nk, id |-> id, forall |-> q]
NoTy == Ty("None", NoId, NoId, 0)
BoundVar == Ty("BoundVar", NoId, NoId, 0)
InferenceVar == Ty("InferenceVar", NoId, NoId, 0)
UnselectedProjection == Ty("UnselectedProjection", NoId, NoId, 0)
Projection(a) == Ty("Projection", NoId, a, 0)
ApplyKind(k, id) == Ty("Apply", k, id, 0)
ApplyPlaceholder == Ty("Apply", "Placeholder", NoId, 0)
ApplyAssoc(a) == Ty("Apply", "AssociatedType", a, 0)
ForAllTy(ty) == [ty EXCEPT !.forall = @ + 1]

BaseTys ==
    {BoundVar, InferenceVar, UnselectedProjection, ApplyPlaceholder}
    \cup {Projection(a) : a \in AssocIds}
    \cup {ApplyAssoc(a) : a \in AssocIds}
    \cup {ApplyKind("TypeId", a) : a \in AssocIds}
    \cup {ApplyKind("TraitId", t) : t \in TraitIds}
    \cup {ApplyKind("StructId", s) : s \in StructIds}

Tys == {[b EXCEPT !.forall = q] : b \in BaseTys, q \in 0..MaxForAll}

\* ------------------------------------------------------------------- goals
\* A DomainGoal: its variant, the entity it names (trait, associated type or
\* type-kind id), the kind of a TypeKindId, and the type it is about.
Goal(kind, id, tk, ty) == [kind |-> kind, id |-> id, tk |-> tk, ty |-> ty]

TraitGoalKinds == {"Implemented", "WellFormedTrait", "LocalImplAllowed"}
AssocGoalKinds == {"ProjectionEq", "Normalize"}
TyGoalKinds == {"WellFormedTy", "IsLocal", "IsUpstream", "IsFullyVisible",
                "DownstreamType", "UnselectedNormalize"}
FromEnvKinds == {"FromEnvTrait", "FromEnvTy"}

Implemented(t, ty) == Goal("Implemented", t, NoId, ty)
FromEnvTrait(t, ty) == Goal("FromEnvTrait", t, NoId, ty)
FromEnvTy(ty) == Goal("FromEnvTy", NoId, NoId, ty)
Compatible == Goal("Compatible", NoId, NoId, NoTy)

\* ----------------------------------------------------------------- clauses
\* A ProgramClause: Implies(implication) or ForAll(Binders<implication>).
Clause(form, n, consequence, conditions) ==
    [form |-> form, binders |-> n, consequence |-> consequence,
     conditions |-> conditions]
Implies(consequence, conditions) == Clause("Implies", 0, consequence, conditions)

Range(s) == {s[i] : i \in 1..Len(s)}

\* sequences over S of length at most n
BSeq(S, n) == UNION {[1..k -> S] : k \in 0..n}

\* s repeated n times
RECURSIVE Repeat(_, _)
Repeat(s, n) == IF n = 0 THEN <<>> ELSE s \o Repeat(s, n - 1)

\* The orders in which draining a hash set may yield its members: the order
\* depends on the table (hashes, capacity, insertion history), not on the set,
\* so every enumeration without repetition is possible.
RECURSIVE DrainOrders(_)
DrainOrders(S) ==
    IF S = {} THEN {<<>>}
    ELSE UNION {{<<x>> \o s : s \in DrainOrders(S \ {x})} : x \in S}

\* ------------------------------------------------------ declaration store
\* What each declaration's clause-producing routine can emit.  A trait says
\* how it is implemented from the environment (T2 also under its supertrait
\* T1), a struct when it is well formed, an associated type how it normalizes.
TraitClause(t) ==
    Clause("ForAll", 1, Implemented(t, BoundVar),
           IF t = "T2"
           THEN <<FromEnvTrait(t, BoundVar), Implemented("T1", BoundVar)>>
           ELSE <<FromEnvTrait(t, BoundVar)>>)
StructClause(s) ==
    Implies(Goal("WellFormedTy", NoId, NoId, ApplyKind("StructId", s)),
            <<Implemented("T1", ApplyKind("StructId", s))>>)
AssocClause(a) ==
    Clause("ForAll", 1, Goal("Normalize", a, NoId, NoTy),
           <<FromEnvTy(ApplyKind("StructId", "S1"))>>)

\* The stores: any set of the declarations has a clause to emit, and the
\* routines emit it 1..MaxDecl times, the same way at every call.
Stores ==
    {[trait |-> [t \in TraitIds |->
                    IF t \in P THEN Repeat(<<TraitClause(t)>>, n) ELSE <<>>],
      struct |-> [x \in StructIds |->
                    IF x \in P THEN Repeat(<<StructClause(x)>>, n) ELSE <<>>],
      assoc |-> [a \in AssocIds |->
                    IF a \in P THEN Repeat(<<AssocClause(a)>>, n) ELSE <<>>],
      impls |-> {}] :
        P \in SUBSET (TraitIds \cup StructIds \cup AssocIds), n \in 1..MaxDecl}

\* The stores of explicit impls: no declaration emits a clause, and any set of
\* (trait, struct) pairs has an explicit positive or negative impl.
ImplStores ==
    {[trait |-> [t \in TraitIds |-> <<>>], struct |-> [s \in StructIds |-> <<>>],
      assoc |-> [a \in AssocIds |-> <<>>], impls |-> I] :
        I \in SUBSET (TraitIds \X StructIds)}

\* program.impl_provided_for(trait_id, struct_id)
ImplProvidedFor(db, trait_id, struct_id) == <<trait_id, struct_id>> \in db.impls

\* db.trait_datum(id).to_program_clauses(db, clauses) and its two siblings
TraitToProgramClauses(db, id, clauses) == clauses \o db.trait[id]
StructToProgramClauses(db, id, clauses) == clauses \o db.struct[id]
AssocTyToProgramClauses(db, id, clauses) == clauses \o db.assoc[id]

\* ------------------------------------------------------------- could_match
\* Two types could match unless both are applications of different names.
TyCouldMatch(a, b) ==
    (a.forall = 0 /\ b.forall = 0 /\ a.tag = "Apply" /\ b.tag = "Apply")
        => (a.nk = b.nk /\ a.id = b.id)

\* clause.could_match(goal): the clause's consequence has the goal's variant
\* and names the same entity, and their types could match.
CouldMatch(clause, goal) ==
    /\ clause.consequence.kind = goal.kind
    /\ clause.consequence.id = goal.id
    /\ clause.consequence.tk = goal.tk
    /\ TyCouldMatch(clause.consequence.ty, goal.ty)

\* --------------------------------------------------- type-shape dispatcher
MatchTypeKind(db, tk, id, clauses) ==
    CASE tk = "TypeId" -> AssocTyToProgramClauses(db, id, clauses)
      [] tk = "TraitId" -> TraitToProgramClauses(db, id, clauses)
      [] tk = "StructId" -> StructToProgramClauses(db, id, clauses)

\* match_ty with variables treated like placeholders
RECURSIVE MatchTyVarsAsPlaceholder(_, _, _, _)
MatchTyVarsAsPlaceholder(db, goal, ty, clauses) ==
    IF ty.forall > 0
    THEN MatchTyVarsAsPlaceholder(db, goal, [ty EXCEPT !.forall = @ - 1], clauses)
    ELSE CASE ty.tag = "Apply" /\ ty.nk \in {"TypeId", "TraitId", "StructId"} ->
                MatchTypeKind(db, ty.nk, ty.id, clauses)
           [] ty.tag = "Apply" /\ ty.nk = "AssociatedType" ->
                AssocTyToProgramClauses(db, ty.id, clauses)
           [] ty.tag = "Projection" ->
                AssocTyToProgramClauses(db, ty.id, clauses)
           [] ty.tag = "UnselectedProjection" -> clauses
           [] OTHER -> Append(clauses, Implies(goal, <<>>))

RECURSIVE MatchTy(_, _, _, _)
MatchTy(db, goal, ty, clauses) ==
    IF ty.forall > 0
    THEN MatchTy(db, goal, [ty EXCEPT !.forall = @ - 1], clauses)
    ELSE CASE ty.tag = "Apply" /\ ty.nk \in {"TypeId", "TraitId", "StructId"} ->
                MatchTypeKind(db, ty.nk, ty.id, clauses)
           [] ty.tag = "Apply" /\ ty.nk = "Placeholder" ->
                Append(clauses, Implies(goal, <<>>))
           [] ty.tag = "Apply" /\ ty.nk = "AssociatedType" ->
                AssocTyToProgramClauses(db, ty.id, clauses)
           [] ty.tag = "Projection" ->
                AssocTyToProgramClauses(db, ty.id, clauses)
           [] ty.tag = "UnselectedProjection" -> clauses
           [] ty.tag \in {"BoundVar", "InferenceVar"} -> clauses

\* ------------------------------------------------- goal-driven collector
\* The candidates the match on the goal's variant collects.
CandidateClauses(db, goal) ==
    CASE goal.kind \in {"Implemented", "WellFormedTrait", "LocalImplAllowed"} ->
            TraitToProgramClauses(db, goal.id, <<>>)
      [] goal.kind \in {"ProjectionEq", "Normalize"} ->
            AssocTyToProgramClauses(db, goal.id, <<>>)
      [] goal.kind \in {"WellFormedTy", "IsLocal", "IsUpstream",
                        "IsFullyVisible", "DownstreamType"} ->
            MatchTy(db, goal, goal.ty, <<>>)
      [] goal.kind = "UnselectedNormalize" -> MatchTy(db, goal, goal.ty, <<>>)
      [] goal.kind = "InScope" -> MatchTypeKind(db, goal.tk, goal.id, <<>>)
      [] goal.kind \in {"FromEnvTrait", "FromEnvTy"} -> <<>>
      [] goal.kind = "Compatible" -> <<>>

\* vec.extend(clauses.into_iter().filter(|clause| clause.could_match(goal)))
ExtendFiltered(vec, clauses, goal) ==
    vec \o SelectSeq(clauses, LAMBDA c : CouldMatch(c, goal))

ProgramClausesThatCouldMatch(db, goal, vec) ==
    ExtendFiltered(vec, CandidateClauses(db, goal), goal)

\* ----------------------------------------------------------- clause visitor
\* What walking one goal discovers: the clauses of the entity it names and of
\* the shape of the type it is about.
VisitDomainGoal(db, g) ==
    (CASE g.kind \in TraitGoalKinds \cup {"FromEnvTrait"} ->
            Range(MatchTypeKind(db, "TraitId", g.id, <<>>))
       [] g.kind \in AssocGoalKinds ->
            Range(MatchTypeKind(db, "TypeId", g.id, <<>>))
       [] g.kind = "InScope" -> Range(MatchTypeKind(db, g.tk, g.id, <<>>))
       [] OTHER -> {})
    \cup (IF g.ty = NoTy THEN {} ELSE Range(MatchTy(db, g, g.ty, <<>>)))

\* visitor.visit_program_clause(clause), the visitor collecting into `round`
VisitProgramClause(db, clause, round) ==
    round \cup VisitDomainGoal(db, clause.consequence)
          \cup UNION {VisitDomainGoal(db, g) : g \in Range(clause.conditions)}

\* a visitor walking every clause of the set S in turn
RECURSIVE VisitAll(_, _, _)
VisitAll(db, S, round) ==
    IF S = {} THEN round
    ELSE LET c == CHOOSE x \in S : TRUE
         IN VisitAll(db, S \ {c}, VisitProgramClause(db, c, round))

\* -------------------------------------------------- auto-trait synthesizer
\* Binders<ProgramClauseImplication> cast to a ProgramClause: quantified over
\* the n binders (a plain implication when there are none).
CastBinders(n, consequence, conditions) ==
    Clause(IF n = 0 THEN "Implies" ELSE "ForAll", n, consequence, conditions)

\* lines 65-94: the clause pushed for the struct
AutoImplClause(auto_trait_id, auto_trait, struct_datum) ==
    CastBinders(struct_datum.binders,
                Implemented(auto_trait.trait_id, struct_datum.self_ty),
                [i \in 1..Len(struct_datum.fields) |->
                    Implemented(auto_trait_id, struct_datum.fields[i])])

\* how a call ends: normally or in a failed assertion, with the vector as it
\* then is and the impl_provided_for lookups made until then
Outcome(st, v, q) == [status |-> st, vec |-> v, queried |-> q]

\* a struct without fields is given no clause
PushAutoTraitImplsSkipEmpty(auto_trait_id, auto_trait, struct_id, struct_datum, program, v) ==
    IF ~auto_trait.auto \/ auto_trait.binders # AutoTraitBinders
    THEN Outcome("panicked", v, {})
    ELSE IF ImplProvidedFor(program, auto_trait_id, struct_id)
            \/ struct_datum.fields = <<>>
    THEN Outcome("returned", v, {<<auto_trait_id, struct_id>>})
    ELSE Outcome("returned",
                 Append(v, AutoImplClause(auto_trait_id, auto_trait, struct_datum)),
                 {<<auto_trait_id, struct_id>>})

\* explicit impls not consulted
PushAutoTraitImplsNoSuppress(auto_trait_id, auto_trait, struct_id, struct_datum, program, v) ==
    IF ~auto_trait.auto \/ auto_trait.binders # AutoTraitBinders
    THEN Outcome("panicked", v, {})
    ELSE Outcome("returned",
                 Append(v, AutoImplClause(auto_trait_id, auto_trait, struct_datum)),
                 {<<auto_trait_id, struct_id>>})

\* the explicit impl looked up before the assertions
PushAutoTraitImplsLateAssert(auto_trait_id, auto_trait, struct_id, struct_datum, program, v) ==
    IF ImplProvidedFor(program, auto_trait_id, struct_id)
    THEN Outcome("returned", v, {<<auto_trait_id, struct_id>>})
    ELSE IF ~auto_trait.auto \/ auto_trait.binders # AutoTraitBinders
    THEN Outcome("panicked", v, {<<auto_trait_id, struct_id>>})
    ELSE Outcome("returned",
                 Append(v, AutoImplClause(auto_trait_id, auto_trait, struct_datum)),
                 {<<auto_trait_id, struct_id>>})

\* lines 44-95
PushAutoTraitImpls(auto_trait_id, auto_trait, struct_id, struct_datum, program, v) ==
    IF ~auto_trait.auto THEN Outcome("panicked", v, {})
    ELSE IF auto_trait.binders # AutoTraitBinders THEN Outcome("panicked", v, {})
    ELSE IF ImplProvidedFor(program, auto_trait_id, struct_id)
    THEN Outcome("returned", v, {<<auto_trait_id, struct_id>>})
    ELSE Outcome("returned",
                 Append(v, AutoImplClause(auto_trait_id, auto_trait, struct_datum)),
                 {<<auto_trait_id, struct_id>>})

\* ------------------------------------------------- environment closure
\* round 0: a visitor over last_round walks every clause of the environment
SeedRound(db, env) == VisitAll(db, Range(env), {})

\* the loop test inverted
LoopCondInverted(last) == last = {}

\* while !last_round.is_empty()
LoopCond(last) == last # {}

\* for clause in last_round.drain() { visitor.visit_program_clause(&clause) }
WalkRound(db, last, next) == VisitAll(db, last, next)

\* the frontier extended without the filter on closure.insert
NewFrontierUnfiltered(next, clos) == next

\* next_round.drain().filter(|clause| closure.insert(clause.clone())):
\* the clauses the filter lets through to last_round.extend
NewFrontier(next, clos) == {c \in next : c \notin clos}

\* the closure after the filter's closure.insert ran on every drained clause
InsertAll(next, clos) == clos \cup next

\* next_round iterated but not drained
KeptNext(next) == next

\* next_round once the drain has been consumed
DrainedNext(next) == {}

RECURSIVE CloseLoop(_, _, _)
CloseLoop(db, last, clos) ==
    IF ~LoopCond(last) THEN clos
    ELSE LET next == WalkRound(db, last, {})
         IN CloseLoop(db, NewFrontier(next, clos), InsertAll(next, clos))

\* the closure when the loop ends: lines 214-234
ClosureOf(db, env) ==
    LET seed == SeedRound(db, env) IN CloseLoop(db, seed, seed)

\* the output extended with round 0 as well as with the closure
ProgramClausesForEnvSeedToo(db, env, clauses) ==
    LET seed == SeedRound(db, env)
    IN {clauses \o r \o s :
            r \in DrainOrders(seed), s \in DrainOrders(CloseLoop(db, seed, seed))}

\* program_clauses_for_env as a function of its inputs: the vectors it may
\* leave in `clauses`, one for each drain order of the closure
ProgramClausesForEnv(db, env, clauses) ==
    {clauses \o s : s \in DrainOrders(ClosureOf(db, env))}

\* ------------------------------------------------------------------- state
VARIABLES
    store,          \* the declaration store (db)
    environment,    \* environment.clauses
    pc,             \* position in program_clauses_for_env
    last_round, closure, next_round,   \* its three hash sets
    clauses,        \* its output vector
    walked,         \* history: the clauses the loop has drained and walked
    goal,           \* the goal of program_clauses_for_goal
    gpc,            \* position in program_clauses_for_goal
    vec,            \* its vector
    call,           \* the arguments of push_auto_trait_impls
    status,         \* "ready", "returned" or "panicked"
    out,            \* its output vector
    queried         \* the impl_provided_for lookups it has made

envVars == <<pc, last_round, closure, next_round, clauses, walked>>
goalVars == <<goal, gpc, vec>>
autoVars == <<call, status, out, queried>>
vars == <<store, environment, envVars, goalVars, autoVars>>

\* The hypotheses an environment is drawn from.
EnvClauses ==
    {Implies(FromEnvTrait("T2", BoundVar), <<>>),
     Implies(FromEnvTy(Projection("A1")), <<>>),
     Implies(FromEnvTy(ApplyPlaceholder), <<>>)}


EnvIdle ==
    /\ pc = "idle" /\ last_round = {} /\ closure = {} /\ next_round = {}
    /\ clauses = <<>> /\ walked = {}
GoalIdle == goal = Compatible /\ gpc = "idle" /\ vec = <<>>
AutoIdle == call = <<>> /\ status = "idle" /\ out = <<>> /\ queried = {}

\* -------------------------------------------- program_clauses_for_env steps
InitEnv ==
    /\ store \in Stores
    /\ environment \in BSeq(EnvClauses, MaxEnvLen)
    /\ pc = "start" /\ last_round = {} /\ closure = {} /\ next_round = {}
    /\ clauses = <<>> /\ walked = {}
    /\ GoalIdle /\ AutoIdle

\* lines 214-223: round 0 and the seeding of the closure
EnvSeed ==
    /\ pc = "start"
    /\ last_round' = SeedRound(store, environment)
    /\ closure' = last_round'
    /\ next_round' = {}
    /\ pc' = "head"
    /\ UNCHANGED <<clauses, walked>>
    /\ UNCHANGED <<store, environment, goalVars, autoVars>>

\* lines 224-228: the loop test, and the frontier drained into the visitor
EnvWalk ==
    /\ pc = "head" /\ LoopCond(last_round)
    /\ next_round' = WalkRound(store, last_round, next_round)
    /\ walked' = walked \cup last_round
    /\ last_round' = {}
    /\ pc' = "walked"
    /\ UNCHANGED <<closure, clauses>>
    /\ UNCHANGED <<store, environment, goalVars, autoVars>>

\* lines 229-233: the new clauses join the closure and form the next frontier
EnvMerge ==
    /\ pc = "walked"
    /\ last_round' = last_round \cup NewFrontier(next_round, closure)
    /\ closure' = InsertAll(next_round, closure)
    /\ next_round' = DrainedNext(next_round)
    /\ pc' = "head"
    /\ UNCHANGED <<clauses, walked>>
    /\ UNCHANGED <<store, environment, goalVars, autoVars>>

\* line 236: the loop has ended; the closure is drained into the output
EnvReturn ==
    /\ pc = "head" /\ ~LoopCond(last_round)
    /\ \E s \in DrainOrders(closure) : clauses' = clauses \o s
    /\ closure' = {}
    /\ pc' = "done"
    /\ UNCHANGED <<last_round, next_round, walked>>
    /\ UNCHANGED <<store, environment, goalVars, autoVars>>

NextEnv == EnvSeed \/ EnvWalk \/ EnvMerge \/ EnvReturn

SpecEnv == InitEnv /\ [][NextEnv]_vars

\* the steps return what the function of the inputs gives
EnvStepsAgree ==
    pc = "done" => clauses \in ProgramClausesForEnv(store, environment, <<>>)

\* the function runs to its end once called: no step of it blocks
FairSpecEnv == SpecEnv /\ WF_vars(NextEnv)

\* ------------------------------------------------ environment closure claims
\* C1: the breadth-first loop of program_clauses_for_env terminates: a round
\* comes that finds nothing new, the frontier is empty and the accumulator has
\* been returned.
C1_Terminates == <>(pc = "done" /\ last_round = {} /\ next_round = {})

\* the loop returned after walking at least two clauses in later rounds
C1_Witness == pc = "done" /\ Cardinality(walked) >= 2 /\ Len(clauses) >= 3

\* C2: the returned closure is closed under the visitor's discovery step: what
\* walking any clause of it discovers is in it already, and closing it again
\* as if it were the environment yields no clause beyond it.
C2_ClosureClosed ==
    pc = "done" =>
        /\ \A c \in Range(clauses) :
              VisitProgramClause(store, c, {}) \subseteq Range(clauses)
        /\ ClosureOf(store, clauses) \subseteq Range(clauses)

\* a returned closure of three clauses, each of which discovers something
C2_Witness ==
    /\ pc = "done" /\ Cardinality(Range(clauses)) >= 3
    /\ \A c \in Range(clauses) : VisitProgramClause(store, c, {}) # {}

\* C9: at the head of every iteration next_round is empty and last_round is
\* within the closure; a round makes the frontier exactly the discovered
\* clauses that were not in the closure and inserts all of them; the closure
\* only grows while the loop runs; no clause is in the frontier of two rounds.
C9_FrontierInvariant ==
    /\ [](pc = "head" =>
            /\ next_round = {}
            /\ last_round \subseteq closure
            /\ last_round \cap walked = {})
    /\ [][pc = "walked" =>
            /\ last_round' = next_round \ closure
            /\ closure' = closure \cup next_round]_vars
    /\ [][pc' # "done" => closure \subseteq closure']_vars

\* the head of a later iteration, with a fresh frontier and clauses already
\* walked
C9_Witness == pc = "head" /\ last_round # {} /\ walked # {}

\* ------------------------------------------------ program_clauses_for_goal
\* The goals a caller may ask about.
SelfTys == {BoundVar, ApplyKind("StructId", "S1")}
Goals ==
    {Goal(k, t, NoId, ty) :
        k \in TraitGoalKinds \cup {"FromEnvTrait"}, t \in TraitIds, ty \in SelfTys}
    \cup {Goal(k, a, NoId, NoTy) : k \in AssocGoalKinds, a \in AssocIds}
    \cup {Goal(k, NoId, NoId, ty) : k \in TyGoalKinds \cup {"FromEnvTy"}, ty \in Tys}
    \cup {Goal("InScope", a, "TypeId", NoTy) : a \in AssocIds}
    \cup {Goal("InScope", t, "TraitId", NoTy) : t \in TraitIds}
    \cup {Goal("InScope", s, "StructId", NoTy) : s \in StructIds}
    \cup {Compatible}

\* the final retain left out
RetainAll(v, g) == v

\* vec.retain(|c| c.could_match(goal))
Retain(v, g) == SelectSeq(v, LAMBDA c : CouldMatch(c, g))

InitGoal ==
    /\ store \in Stores
    /\ environment \in BSeq(EnvClauses, MaxEnvLen)
    /\ goal \in Goals
    /\ gpc = "start" /\ vec = <<>>
    /\ EnvIdle /\ AutoIdle

\* line 108
GoalCollect ==
    /\ gpc = "start"
    /\ vec' = ProgramClausesThatCouldMatch(store, goal, vec)
    /\ gpc' = "matched"
    /\ UNCHANGED <<store, environment, goal, envVars, autoVars>>

\* line 109
GoalEnv ==
    /\ gpc = "matched"
    /\ vec' \in ProgramClausesForEnv(store, environment, vec)
    /\ gpc' = "closed"
    /\ UNCHANGED <<store, environment, goal, envVars, autoVars>>

\* lines 110-111
GoalRetain ==
    /\ gpc = "closed"
    /\ vec' = Retain(vec, goal)
    /\ gpc' = "done"
    /\ UNCHANGED <<store, environment, goal, envVars, autoVars>>

NextGoal == GoalCollect \/ GoalEnv \/ GoalRetain

SpecGoal == InitGoal /\ [][NextGoal]_vars

\* ----------------------------------------- program_clauses_for_goal claims
\* how many entries of s equal c
Count(s, c) == Cardinality({i \in 1..Len(s) : s[i] = c})

\* what the two contributions are for the goal and environment at hand
Collected == ProgramClausesThatCouldMatch(store, goal, <<>>)
EnvClosure == ClosureOf(store, environment)

\* C3: the clauses returned are exactly those of the collector's output and of
\* the environment closure that could match the goal.
C3_FilteredUnion ==
    gpc = "done" =>
        Range(vec) = {c \in Range(Collected) \cup EnvClosure :
                        CouldMatch(c, goal)}

\* the collector contributed, and the final filter kept one clause of the
\* closure and dropped another
C3_Witness ==
    /\ gpc = "done" /\ Collected # <<>>
    /\ \E c \in EnvClosure : ~CouldMatch(c, goal)
    /\ \E c \in EnvClosure \ Range(Collected) : CouldMatch(c, goal)

\* C4 as claimed: no two entries of the returned vector are equal.
C4_NoDuplicates ==
    gpc = "done" =>
        \A i, j \in 1..Len(vec) : i # j => vec[i] # vec[j]

\* C4 as amended: a clause that could match the goal occurs once for each time
\* the collector produced it and once more if the environment closure holds
\* it; the closure's own contribution has no duplicates.
C4_DuplicatesOnlyAcrossParts ==
    /\ gpc = "closed" =>
        \A c \in Range(Collected) \cup EnvClosure \cup Range(vec) :
            Count(vec, c) = Count(Collected, c) + (IF c \in EnvClosure THEN 1 ELSE 0)
    /\ gpc = "done" =>
        \A c \in Range(Collected) \cup EnvClosure \cup Range(vec) :
            Count(vec, c) =
              IF CouldMatch(c, goal)
              THEN Count(Collected, c) + (IF c \in EnvClosure THEN 1 ELSE 0)
              ELSE 0

\* a clause returned three times: the declaration's routine gave it to the
\* collector twice, and the environment closure holds it too
C4_Witness ==
    /\ gpc = "done"
    /\ \E c \in Range(vec) :
          Count(vec, c) = 3 /\ Count(Collected, c) = 2 /\ c \in EnvClosure

\* the goals whose shape the collector leaves without clauses
GapGoal(g) ==
    \/ g.kind \in FromEnvKinds \cup {"Compatible"}
    \/ /\ g.kind \in TyGoalKinds
       /\ g.ty.tag \in {"UnselectedProjection", "BoundVar", "InferenceVar"}

\* C8: for FromEnv, Compatible and the type-dispatched goals about an
\* unselected projection or a variable (also under ForAll) the collector
\* appends nothing, so every clause returned comes from the environment closure.
C8_DefinedEmptyGaps ==
    GapGoal(goal) =>
        /\ gpc = "matched" => vec = <<>>
        /\ gpc = "done" => Range(vec) \subseteq EnvClosure

\* a type-dispatched goal about a quantified variable or unselected
\* projection, answered from the environment closure alone
C8_Witness ==
    /\ GapGoal(goal) /\ goal.kind \in TyGoalKinds /\ goal.ty.forall > 0
    /\ gpc = "done" /\ vec # <<>>

\* --------------------------------------------------- push_auto_trait_impls
\* The field types of a struct, and the datums a caller may pass.
FieldTys == {BoundVar, ApplyKind("StructId", "S1"), Projection("A1")}
TraitDatums ==
    [auto : BOOLEAN, binders : 0..MaxBinders, trait_id : TraitIds]
StructDatums ==
    {[binders |-> n, self_ty |-> ApplyKind("StructId", s), fields |-> f] :
        n \in 0..MaxBinders, s \in StructIds, f \in BSeq(FieldTys, MaxFields)}
Calls ==
    [auto_trait_id : TraitIds, auto_trait : TraitDatums, struct_id : StructIds,
     struct_datum : StructDatums, vec : {<<>>, <<StructClause("S1")>>}]

InitAuto ==
    /\ store \in ImplStores
    /\ environment = <<>>
    /\ call \in Calls
    /\ status = "ready" /\ out = call.vec /\ queried = {}
    /\ EnvIdle /\ GoalIdle

PushAuto ==
    /\ status = "ready"
    /\ LET r == PushAutoTraitImpls(call.auto_trait_id, call.auto_trait,
                                   call.struct_id, call.struct_datum, store, out)
       IN /\ status' = r.status
          /\ out' = r.vec
          /\ queried' = r.queried
    /\ UNCHANGED <<store, environment, call, envVars, goalVars>>

NextAuto == PushAuto

SpecAuto == InitAuto /\ [][NextAuto]_vars

\* the call's preconditions, and whether an explicit impl exists for it
Accepted ==
    call.auto_trait.auto /\ call.auto_trait.binders = AutoTraitBinders
Provided == ImplProvidedFor(store, call.auto_trait_id, call.struct_id)
Pushed == out[Len(out)]

\* C5: called with an auto trait of one binder and no explicit impl, the
\* function appends exactly one clause, quantified over the struct's binders:
\* the struct's self type implements the trait of the datum if every field
\* type, in declared order, implements the trait of the call, one condition
\* per field (none for a struct without fields).
C5_FieldCountLaw ==
    (status # "ready" /\ Accepted /\ ~Provided) =>
        /\ status = "returned"
        /\ Len(out) = Len(call.vec) + 1
        /\ SubSeq(out, 1, Len(call.vec)) = call.vec
        /\ Pushed.binders = call.struct_datum.binders
        /\ Pushed.consequence =
              Implemented(call.auto_trait.trait_id, call.struct_datum.self_ty)
        /\ Len(Pushed.conditions) = Len(call.struct_datum.fields)
        /\ \A i \in 1..Len(call.struct_datum.fields) :
              Pushed.conditions[i] =
                Implemented(call.auto_trait_id, call.struct_datum.fields[i])

\* a clause pushed for a struct of two different fields, and one for a struct
\* without fields
C5_Witness ==
    /\ status = "returned" /\ Accepted /\ ~Provided
    /\ \/ /\ Len(call.struct_datum.fields) = 2
          /\ call.struct_datum.fields[1] # call.struct_datum.fields[2]
          /\ Len(Pushed.conditions) = 2
       \/ /\ call.struct_datum.fields = <<>>
          /\ Len(out) = Len(call.vec) + 1

\* C6: with an explicit impl for the pair the function returns and leaves
\* the output vector as it was, whatever the struct's fields.
C6_ExplicitImplSuppresses ==
    (status # "ready" /\ Accepted /\ Provided) =>
        status = "returned" /\ out = call.vec

\* a suppressed call for a struct with fields and a vector with an entry
C6_Witness ==
    /\ status = "returned" /\ Accepted /\ Provided
    /\ call.struct_datum.fields # <<>> /\ out # <<>>

\* C7: a trait without the auto flag, or whose binders are not exactly one,
\* makes the call abort, before impl_provided_for is consulted and with
\* nothing appended.
C7_AbortsOnBadTrait ==
    (status # "ready" /\ ~Accepted) =>
        status = "panicked" /\ queried = {} /\ out = call.vec

\* an abort that an explicit impl for the pair did not mask
C7_Witness ==
    /\ status = "panicked" /\ Provided
    /\ call.auto_trait.auto /\ call.auto_trait.binders = 2

\* C10: the clause pushed names one trait throughout: the consequence, every
\* condition and the impl_provided_for lookup name the trait of the call.
C10_OneTrait ==
    (status = "returned" /\ Len(out) > Len(call.vec)) =>
        /\ Pushed.consequence.id = call.auto_trait_id
        /\ \A i \in 1..Len(Pushed.conditions) :
              Pushed.conditions[i].id = call.auto_trait_id
        /\ queried = {<<call.auto_trait_id, call.struct_id>>}

====
